---- MODULE Spec2Model ----
(***************************************************************************)
(* A model of text_extensions_for_pandas/array/tensor.py: TensorArray, a   *)
(* column of equal-shape tensors over one numpy.ndarray, and TensorElement,*)
(* the wrapper of one row.                                                 *)
(*                                                                         *)
(* numpy is modelled as it behaves: an ndarray is a strided view           *)
(* [buf, off, shape, strides] of a buffer of the heap, so that basic       *)
(* indexing yields views that share memory and everything else yields      *)
(* fresh arrays.  An element is <<>> (NaN), <<h>> (the number h/2: one     *)
(* binary fractional digit, so that a float -> int cast truncates) or      *)
(* Unspecified: the integer that the C cast of NaN to an integer type      *)
(* leaves, which differs between platforms; it stands for any of them, is  *)
(* never NaN, and no property depends on which integer it is.              *)
(***************************************************************************)
EXTENDS Integers, Sequences, FiniteSets, TLC

VARIABLES heap,   \* the allocated buffers: heap[b] = [dtype, data]
          cols,   \* the live TensorArray objects: cols[c] is its _tensor
          prov,   \* prov[c]: the call that created column c (history)
          res,    \* the last call: what was called, with what, and its outcome
          nops    \* the number of calls made

vars == <<heap, cols, prov, res, nops>>

\* The number of calls of one run.
MaxOps == 3

----------------------------------------------------------------------------
(* Element values *)

NaN == <<>>
Unspecified == <<0, 0>>
Num(h) == <<h>>
True == Num(2)
False == Num(0)
Bool(b) == IF b THEN True ELSE False
IsNum(v) == Len(v) = 1

\* numpy's result type of two dtypes, over bool < int < float.
Promote(d1, d2) ==
  IF "float" \in {d1, d2} THEN "float"
  ELSE IF "int" \in {d1, d2} THEN "int" ELSE "bool"

\* The dtype of a Python scalar handed to numpy.
ScalarDtype(v) == IF v = NaN \/ v[1] % 2 # 0 THEN "float" ELSE "int"

\* C's conversion of a float to an integer: towards zero.
Trunc(h) == IF h >= 0 THEN 2 * (h \div 2) ELSE -(2 * ((-h) \div 2))

\* numpy's unsafe cast of one element, as item assignment and full_like do it.
Cast(v, dtype) ==
  CASE dtype = "float" -> v
    [] dtype = "int" -> IF v = NaN THEN Unspecified
                        ELSE IF v = Unspecified THEN v ELSE Num(Trunc(v[1]))
    [] OTHER -> IF v = NaN \/ v = Unspecified THEN True ELSE Bool(v[1] # 0)

isnan(v) == v = NaN

add(a, b) ==
  IF a = NaN \/ b = NaN THEN NaN
  ELSE IF a = Unspecified \/ b = Unspecified THEN Unspecified
  ELSE Num(a[1] + b[1])

sub(a, b) ==
  IF a = NaN \/ b = NaN THEN NaN
  ELSE IF a = Unspecified \/ b = Unspecified THEN Unspecified
  ELSE Num(a[1] - b[1])

lt(a, b) ==
  IF a = NaN \/ b = NaN THEN False
  ELSE IF a = Unspecified \/ b = Unspecified THEN Unspecified
  ELSE Bool(a[1] < b[1])

\* floor division and remainder, for a positive divisor
floordiv(a, b) ==
  IF a = NaN \/ b = NaN THEN NaN
  ELSE IF a = Unspecified \/ b = Unspecified THEN Unspecified
  ELSE Num(2 * (a[1] \div b[1]))

mod(a, b) ==
  IF a = NaN \/ b = NaN THEN NaN
  ELSE IF a = Unspecified \/ b = Unspecified THEN Unspecified
  ELSE Num(a[1] % b[1])

----------------------------------------------------------------------------
(* numpy arrays: values [dtype, shape, data] and views of the heap *)

RECURSIVE Prod(_)
Prod(s) == IF s = <<>> THEN 1 ELSE Head(s) * Prod(Tail(s))

RECURSIVE ConcatAll(_)
ConcatAll(ss) == IF ss = <<>> THEN <<>> ELSE Head(ss) \o ConcatAll(Tail(ss))

Array(dtype, shape, data) == [dtype |-> dtype, shape |-> shape, data |-> data]

\* The strides, in elements, of a C-contiguous array of this shape.
CStrides(shape) ==
  [i \in 1..Len(shape) |-> Prod(SubSeq(shape, i + 1, Len(shape)))]

\* The buffer offsets of a view's elements, in row-major order.
RECURSIVE Offsets(_, _, _)
Offsets(off, shape, strides) ==
  IF shape = <<>> THEN <<off>>
  ELSE ConcatAll([i \in 1..Head(shape) |->
         Offsets(off + (i - 1) * Head(strides), Tail(shape), Tail(strides))])

\* numpy's flags.c_contiguous: an array with no element is contiguous, and
\* the stride of an axis of length 1 does not count.
RECURSIVE CContig(_, _, _, _)
CContig(shape, strides, k, sd) ==
  IF k = 0 THEN TRUE
  ELSE IF shape[k] = 1 THEN CContig(shape, strides, k - 1, sd)
  ELSE strides[k] = sd /\ CContig(shape, strides, k - 1, sd * shape[k])

c_contiguous(t) ==
  \/ \E k \in 1..Len(t.shape) : t.shape[k] = 0
  \/ CContig(t.shape, t.strides, Len(t.shape), 1)

View(buf, off, shape, strides) ==
  [buf |-> buf, off |-> off, shape |-> shape, strides |-> strides]

\* The array a view shows.
Load(h, t) ==
  LET offs == Offsets(t.off, t.shape, t.strides)
  IN  Array(h[t.buf].dtype, t.shape,
            [k \in 1..Len(offs) |-> h[t.buf].data[offs[k] + 1]])

\* The heap after writing data, cast to the buffer's dtype, through a view.
Store(h, t, data) ==
  LET offs == Offsets(t.off, t.shape, t.strides)
      dt == h[t.buf].dtype
  IN  [h EXCEPT ![t.buf].data =
         [p \in 1..Len(@) |->
            IF \E k \in 1..Len(offs) : offs[k] + 1 = p
            THEN Cast(data[CHOOSE k \in 1..Len(offs) : offs[k] + 1 = p], dt)
            ELSE @[p]]]

\* A new buffer holding array a, and the C-contiguous view of it.
Alloc(h, a) ==
  [h |-> Append(h, [dtype |-> a.dtype, data |-> a.data]),
   t |-> View(Len(h) + 1, 0, a.shape, CStrides(a.shape))]

\* tensor[i], i an integer: the view of row i (Python's negative indices wrap).
RowView(t, i) ==
  View(t.buf, t.off + (IF i < 0 THEN i + t.shape[1] ELSE i) * t.strides[1],
       Tail(t.shape), Tail(t.strides))

InRange(t, i) == t.shape # <<>> /\ -t.shape[1] <= i /\ i < t.shape[1]

\* tensor[start:stop:step], the slice already resolved against the length.
SliceView(t, s) ==
  LET n == IF s.stop > s.start
           THEN (s.stop - s.start + s.step - 1) \div s.step ELSE 0
  IN  View(t.buf, t.off + s.start * t.strides[1],
           <<n>> \o Tail(t.shape), <<t.strides[1] * s.step>> \o Tail(t.strides))

\* The rows of an array, each a flat sequence.
RowSize(shape) == Prod(Tail(shape))
Row(a, i) == SubSeq(a.data, (i - 1) * RowSize(a.shape) + 1, i * RowSize(a.shape))

\* tensor[positions]: advanced indexing gathers the rows into a fresh array.
Gather(a, idx) ==
  Array(a.dtype, <<Len(idx)>> \o Tail(a.shape),
        ConcatAll([k \in 1..Len(idx) |->
           Row(a, (IF idx[k] < 0 THEN idx[k] + a.shape[1] ELSE idx[k]) + 1)]))

\* The positions a boolean mask selects.
RECURSIVE Nonzero(_, _)
Nonzero(mask, k) ==
  IF k > Len(mask) THEN <<>>
  ELSE (IF mask[k] THEN <<k - 1>> ELSE <<>>) \o Nonzero(mask, k + 1)

\* The data of an array of shape s broadcast to shape T (numpy's rule: the
\* shapes are aligned at their last axes, an axis of length 1 is repeated).
RECURSIVE BData(_, _, _)
BData(s, d, T) ==
  IF T = <<>> THEN d
  ELSE IF Len(s) < Len(T)
       THEN ConcatAll([i \in 1..Head(T) |-> BData(s, d, Tail(T))])
       ELSE LET rs == Prod(Tail(s))
            IN  ConcatAll([i \in 1..Head(T) |->
                  LET r == IF Head(s) = 1 THEN 1 ELSE i
                  IN  BData(Tail(s), SubSeq(d, (r - 1) * rs + 1, r * rs), Tail(T))])

PadShape(s, n) == [i \in 1..(n - Len(s)) |-> 1] \o s

Max(a, b) == IF a >= b THEN a ELSE b

Broadcastable(s1, s2) ==
  LET n == Max(Len(s1), Len(s2))
      p1 == PadShape(s1, n)
      p2 == PadShape(s2, n)
  IN  \A i \in 1..n : p1[i] = p2[i] \/ p1[i] = 1 \/ p2[i] = 1

BShape(s1, s2) ==
  LET n == Max(Len(s1), Len(s2))
      p1 == PadShape(s1, n)
      p2 == PadShape(s2, n)
  IN  [i \in 1..n |-> IF p1[i] = 1 THEN p2[i] ELSE p1[i]]

\* Whether an array of shape s can be assigned to a target of shape T.
AssignableTo(s, T) == Len(s) <= Len(T) /\ Broadcastable(s, T) /\ BShape(s, T) = T

RECURSIVE PromoteAll(_)
PromoteAll(arrs) ==
  IF Len(arrs) = 1 THEN arrs[1].dtype
  ELSE Promote(arrs[1].dtype, PromoteAll(Tail(arrs)))

----------------------------------------------------------------------------
(* Python values at the interface *)

None == <<0, 0, 0>>

\* What a call does: raise, or return a value of some kind with the heap
\* it leaves.
Raise(h, err) == [err |-> err, h |-> h, kind |-> "none", out |-> <<>>]
Return(h, kind, out) == [err |-> "none", h |-> h, kind |-> kind, out |-> out]

\* np.asarray of what a TensorElement wraps: a view of a row, a fresh array,
\* or a numpy scalar.
asarray(h, x) ==
  CASE x.kind = "view" -> Load(h, x.t)
    [] x.kind = "array" -> x.a
    [] OTHER -> Array(x.dtype, <<>>, <<x.v>>)

\* One item of a sequence handed to the constructor, as np.stack receives it.
ItemArray(h, v) ==
  CASE v.kind = "element" -> asarray(h, v.tensor)
    [] v.kind = "scalar" -> Array(ScalarDtype(v.v), <<1>>, <<v.v>>)
    [] OTHER -> v.a

----------------------------------------------------------------------------
(* TensorArray *)

\* TensorArray.__init__: the heap and the _tensor of the new column.
TensorArray(h, values, make_contiguous) ==
  LET made ==
        CASE values.kind = "view" -> Return(h, "column", values.t)
          [] values.kind = "array" ->
               LET m == Alloc(h, values.a) IN Return(m.h, "column", m.t)
          [] values.kind = "strided" ->
               Return(Append(h, [dtype |-> values.dtype, data |-> values.data]),
                      "column",
                      View(Len(h) + 1, 0, values.shape, values.strides))
          [] values.kind = "seq" ->
               IF Len(values.items) = 0
               THEN LET m == Alloc(h, Array("float", <<0>>, <<>>))
                    IN  Return(m.h, "column", m.t)
               ELSE LET arrs == [k \in 1..Len(values.items) |->
                                   ItemArray(h, values.items[k])]
                    IN  IF \E k \in 1..Len(arrs) : arrs[k].shape # arrs[1].shape
                        THEN Raise(h, "ValueError")
                        ELSE LET m == Alloc(h, Array(PromoteAll(arrs),
                                        <<Len(arrs)>> \o arrs[1].shape,
                                        ConcatAll([k \in 1..Len(arrs) |-> arrs[k].data])))
                             IN  Return(m.h, "column", m.t)
          [] values.kind = "element" ->
               LET a == asarray(h, values.tensor)
                   m == Alloc(h, Array(a.dtype, <<1>> \o a.shape, a.data))
               IN  Return(m.h, "column", m.t)
          [] values.kind \in {"scalar", "npscalar"} ->
               LET m == Alloc(h, Array(IF values.kind = "scalar"
                                       THEN ScalarDtype(values.v) ELSE values.dtype,
                                       <<1, 1>>, <<values.v>>))
               IN  Return(m.h, "column", m.t)
          [] OTHER -> Raise(h, "TypeError")
  IN  IF made.err = "none" /\ ~c_contiguous(made.out) /\ make_contiguous
      THEN LET m == Alloc(made.h, Load(made.h, made.out))
           IN  Return(m.h, "column", m.t)
      ELSE made

\* TensorArray._concat_same_type, np.concatenate along axis 0 included.
concat_same_type(h, to_concat) ==
  LET arrs == [k \in 1..Len(to_concat) |-> Load(h, to_concat[k])]
  IN  IF Len(arrs) = 0 THEN Raise(h, "ValueError")
      ELSE IF \E k \in 1..Len(arrs) :
                \/ Len(arrs[k].shape) # Len(arrs[1].shape)
                \/ Tail(arrs[k].shape) # Tail(arrs[1].shape)
           THEN Raise(h, "ValueError")
           ELSE TensorArray(h,
                  [kind |-> "array",
                   a |-> Array(PromoteAll(arrs),
                               <<Len(ConcatAll([k \in 1..Len(arrs) |->
                                    [i \in 1..arrs[k].shape[1] |-> i]]))>>
                                 \o Tail(arrs[1].shape),
                               ConcatAll([k \in 1..Len(arrs) |-> arrs[k].data]))],
                  TRUE)

\* TensorArray.isna: np.all(np.isnan(tensor), axis=-1), an array with the
\* tensor's shape less its last axis.
isna(h, t) ==
  LET a == Load(h, t)
      last == a.shape[Len(a.shape)]
      front == SubSeq(a.shape, 1, Len(a.shape) - 1)
  IN  Array("bool", front,
            [g \in 1..Prod(front) |->
               Bool(\A j \in 1..last : isnan(a.data[(g - 1) * last + j]))])

\* A copy that wraps the source's own buffer instead of np.array's duplicate.
copy_shared(h, t) == TensorArray(h, [kind |-> "view", t |-> t], TRUE)

\* TensorArray.copy
copy(h, t) == TensorArray(h, [kind |-> "array", a |-> Load(h, t)], TRUE)

\* pandas' validate_indices, as take calls it.
validate_indices(indices, n) ==
  IF Len(indices) = 0 THEN "none"
  ELSE IF \E k \in 1..Len(indices) : indices[k] < -1 THEN "ValueError"
  ELSE IF \E k \in 1..Len(indices) : indices[k] >= n THEN "IndexError"
  ELSE "none"

\* TensorArray.take
take(h, t, indices, allow_fill, fill_value) ==
  LET a == Load(h, t)
      rs == RowSize(t.shape)
  IN  IF allow_fill
      THEN LET e == validate_indices(indices, t.shape[1])
               fv == IF fill_value = None THEN NaN ELSE fill_value
               dt == ScalarDtype(fv)
               values == Array(dt, <<Len(indices)>> \o Tail(t.shape),
                           ConcatAll([k \in 1..Len(indices) |->
                             IF indices[k] >= 0
                             THEN [j \in 1..rs |-> Cast(Row(a, indices[k] + 1)[j], dt)]
                             ELSE [j \in 1..rs |-> fv]]))
           IN  IF e # "none" THEN Raise(h, e)
               ELSE TensorArray(h, [kind |-> "array", a |-> values], TRUE)
      ELSE IF \E k \in 1..Len(indices) : ~InRange(t, indices[k])
           THEN Raise(h, "IndexError")
           ELSE TensorArray(h, [kind |-> "array", a |-> Gather(a, indices)], TRUE)

\* An astype whose conversion to the tensor type ignores copy and always
\* wraps the source's own buffer.
astype_shared(h, t, dtype, copy_) ==
  IF dtype = "TensorType"
  THEN TensorArray(h, [kind |-> "view", t |-> t], TRUE)
  ELSE IF dtype = "str"
  THEN Return(h, "strings", [i \in 1..t.shape[1] |-> Row(Load(h, t), i)])
  ELSE Return(h, "ndarray", [kind |-> "view", t |-> t])

\* TensorArray.to_numpy(), dtype and copy left at their defaults: the
\* column's own ndarray.
to_numpy(h, t) == Return(h, "ndarray", [kind |-> "view", t |-> t])

\* TensorArray.astype
astype(h, t, dtype, copy_) ==
  IF dtype = "TensorType"
  THEN TensorArray(h, IF copy_ THEN [kind |-> "array", a |-> Load(h, t)]
                      ELSE [kind |-> "view", t |-> t], TRUE)
  ELSE IF dtype = "str"
  THEN Return(h, "strings", [i \in 1..t.shape[1] |-> Row(Load(h, t), i)])
  ELSE IF ~copy_ /\ dtype = h[t.buf].dtype
       THEN Return(h, "ndarray", [kind |-> "view", t |-> t])
       ELSE LET a == Load(h, t)
            IN  Return(h, "ndarray",
                  [kind |-> "array",
                   a |-> Array(dtype, a.shape,
                               [k \in 1..Len(a.data) |-> Cast(a.data[k], dtype)])])

\* pandas' check_array_indexer(array, indexer), as __getitem__ and __setitem__
\* call it: a list becomes an array, a boolean mask must have the array's
\* length, and an integer, a slice or a tuple is returned as it is.
check_array_indexer(t, item) ==
  IF item.kind = "mask" /\ Len(item.mask) # t.shape[1] THEN "IndexError"
  ELSE "none"

\* Python's slice.indices(n), for a slice of non-negative bounds and a
\* positive step; stopNone is the slice with no upper bound.
SliceIndices(s, n) ==
  [start |-> IF s.start > n THEN n ELSE s.start,
   stop |-> IF s.stopNone \/ s.stop > n THEN n ELSE s.stop,
   step |-> s.step]

\* tensor[i] for an integer i: a numpy scalar when the tensor has one axis,
\* a view of the row otherwise.
IndexInt(h, t, i) ==
  IF Len(t.shape) = 1
  THEN [kind |-> "npscalar", v |-> Load(h, RowView(t, i)).data[1],
        dtype |-> h[t.buf].dtype]
  ELSE [kind |-> "view", t |-> RowView(t, i)]

\* tensor[key] for a tuple of integers: one axis per integer.
RECURSIVE TupleView(_, _)
TupleView(t, key) ==
  IF key = <<>> THEN t ELSE TupleView(RowView(t, Head(key)), Tail(key))

RECURSIVE TupleInRange(_, _)
TupleInRange(t, key) ==
  \/ key = <<>>
  \/ InRange(t, Head(key)) /\ TupleInRange(RowView(t, Head(key)), Tail(key))

\* The positions of the rows an array indexer selects.
Positions(t, item) ==
  IF item.kind = "list" THEN item.idx ELSE Nonzero(item.mask, 1)

\* TensorArray.__getitem__
getitem(h, t, item) ==
  IF item.kind = "int"
  THEN IF ~InRange(t, item.i) THEN Raise(h, "IndexError")
       ELSE Return(h, "element", IndexInt(h, t, item.i))
  ELSE IF check_array_indexer(t, item) # "none"
       THEN Raise(h, check_array_indexer(t, item))
  ELSE CASE item.kind = "npint" ->
              IF ~InRange(t, item.i) THEN Raise(h, "IndexError")
              ELSE TensorArray(h, IndexInt(h, t, item.i), TRUE)
         [] item.kind = "slice" ->
              TensorArray(h, [kind |-> "view",
                              t |-> SliceView(t, SliceIndices(item, t.shape[1]))],
                          TRUE)
         [] OTHER ->
              IF \E k \in 1..Len(Positions(t, item)) :
                   ~InRange(t, Positions(t, item)[k])
              THEN Raise(h, "IndexError")
              ELSE TensorArray(h, [kind |-> "array",
                                   a |-> Gather(Load(h, t), Positions(t, item))],
                               TRUE)

\* The views of the tensor that tensor[key] = ... writes through, in order.
Targets(t, key) ==
  CASE key.kind \in {"int", "npint"} -> <<RowView(t, key.i)>>
    [] key.kind = "slice" -> <<SliceView(t, SliceIndices(key, t.shape[1]))>>
    [] key.kind = "tuple" -> <<TupleView(t, key.idx)>>
    [] OTHER -> [k \in 1..Len(Positions(t, key)) |-> RowView(t, Positions(t, key)[k])]

\* Whether numpy accepts tensor[key].
KeyInRange(t, key) ==
  CASE key.kind \in {"int", "npint"} -> InRange(t, key.i)
    [] key.kind = "slice" -> TRUE
    [] key.kind = "tuple" -> Len(key.idx) <= Len(t.shape) /\ TupleInRange(t, key.idx)
    [] OTHER -> \A k \in 1..Len(Positions(t, key)) : InRange(t, Positions(t, key)[k])

\* The heap after tensor[key] = a, a broadcast over each target.
RECURSIVE StoreAll(_, _, _)
StoreAll(h, targets, a) ==
  IF targets = <<>> THEN h
  ELSE StoreAll(Store(h, Head(targets), BData(a.shape, a.data, Head(targets).shape)),
                Tail(targets), a)

\* A fill with zeros in place of NaN.
NanFillZero(h, t, key) ==
  StoreAll(h, Targets(t, key), Array("float", <<>>, <<Num(0)>>))

\* np.full_like(tensor[key], np.nan) assigned back: NaN, which Store casts
\* to the tensor's dtype.
NanFill(h, t, key) ==
  StoreAll(h, Targets(t, key), Array("float", <<>>, <<NaN>>))

\* TensorArray.__setitem__
setitem(h, t, key, value) ==
  IF check_array_indexer(t, key) # "none" THEN Raise(h, check_array_indexer(t, key))
  ELSE IF value.kind = "none" \/ (value.kind = "seq" /\ Len(value.items) = 0)
  THEN IF ~KeyInRange(t, key) THEN Raise(h, "IndexError")
       ELSE Return(NanFill(h, t, key), "none", <<>>)
  ELSE IF key.kind \in {"int", "slice", "list", "mask"}
  THEN LET a == IF value.kind = "element" THEN asarray(h, value.tensor)
                ELSE Array(ScalarDtype(value.v), <<>>, <<value.v>>)
       IN  IF ~KeyInRange(t, key) THEN Raise(h, "IndexError")
           ELSE IF \E k \in 1..Len(Targets(t, key)) :
                     ~AssignableTo(a.shape, Targets(t, key)[k].shape)
                THEN Raise(h, "ValueError")
                ELSE Return(StoreAll(h, Targets(t, key), a), "none", <<>>)
  ELSE Raise(h, "NotImplementedError")

\* np.sum(tensor, axis=0): the sum of the rows, a numpy scalar when the
\* tensor has one axis.
RECURSIVE SumRows(_, _, _)
SumRows(a, i, j) ==
  IF i > a.shape[1] THEN Num(0) ELSE add(Row(a, i)[j], SumRows(a, i + 1, j))

SumDtype(dtype) == IF dtype = "float" THEN "float" ELSE "int"

\* TensorArray._reduce
reduce(h, t, name) ==
  IF name = "sum"
  THEN LET a == Load(h, t)
           data == [j \in 1..RowSize(a.shape) |-> SumRows(a, 1, j)]
       IN  TensorArray(h,
             IF Len(a.shape) = 1
             THEN [kind |-> "npscalar", v |-> data[1], dtype |-> SumDtype(a.dtype)]
             ELSE [kind |-> "array",
                   a |-> Array(SumDtype(a.dtype), Tail(a.shape), data)],
             TRUE)
  ELSE Raise(h, "NotImplementedError")

\* op(lvalues, rvalues), elementwise over the broadcast operands.
Elementwise(op, l, r) ==
  LET shape == BShape(l.shape, r.shape)
      ld == BData(l.shape, l.data, shape)
      rd == BData(r.shape, r.data, shape)
      dt == Promote(l.dtype, r.dtype)
      map(f(_, _), d) == Array(d, shape, [k \in 1..Len(ld) |-> f(ld[k], rd[k])])
      rsub(x, y) == sub(y, x)
  IN  CASE op = "add" -> <<map(add, dt)>>
        [] op = "rsub" -> <<map(rsub, dt)>>
        [] op = "lt" -> <<map(lt, "bool")>>
        [] OTHER -> <<map(floordiv, dt), map(mod, dt)>>

\* TensorOpsMixin._create_method's _binop: cls is the class the method was
\* created for, self its instance's _tensor, other a column, a row view or
\* a Python scalar.
binop(h, cls, self, op, other) ==
  LET lvalues == asarray(h, self)
      rvalues == IF other.kind = "scalar"
                 THEN Array(ScalarDtype(other.v), <<>>, <<other.v>>)
                 ELSE asarray(h, other)
      r == Elementwise(op, lvalues, rvalues)
      result == IF op = "divmod"
                THEN [kind |-> "seq",
                      items |-> [k \in 1..2 |-> [kind |-> "array", a |-> r[k]]]]
                ELSE IF r[1].shape = <<>>
                     THEN [kind |-> "npscalar", v |-> r[1].data[1], dtype |-> r[1].dtype]
                     ELSE [kind |-> "array", a |-> r[1]]
  IN  IF ~Broadcastable(lvalues.shape, rvalues.shape) THEN Raise(h, "ValueError")
      ELSE IF cls = "TensorArray" THEN TensorArray(h, result, TRUE)
      ELSE Return(h, "element", result)

----------------------------------------------------------------------------
(* The calls a run draws from *)

Strided(dtype, shape, strides, data) ==
  [kind |-> "strided", dtype |-> dtype, shape |-> shape, strides |-> strides,
   data |-> data]

\* [[1.5, 2], [NaN, NaN], [3, NaN]]
FloatRows == Strided("float", <<3, 2>>, <<2, 1>>,
                     <<Num(3), Num(4), NaN, NaN, Num(6), NaN>>)

\* [[1, 1], [2, 2], [3, 3]]
IntRows == Strided("int", <<3, 2>>, <<2, 1>>,
                   <<Num(2), Num(2), Num(4), Num(4), Num(6), Num(6)>>)

\* Two rows of shape (2, 2): one all NaN, one with a number in it.
MatrixRows == Strided("float", <<2, 2, 2>>, <<4, 2, 1>>,
                      <<NaN, NaN, NaN, NaN, NaN, NaN, Num(2), NaN>>)

\* [[1, 3], [2, 4]] in column-major order: not C-contiguous.
FortranRows == Strided("float", <<2, 2>>, <<1, 2>>,
                       <<Num(2), Num(4), Num(6), Num(8)>>)

\* [1, NaN]: an array of one axis, whose rows are scalars.
ScalarRows == Strided("float", <<2>>, <<1>>, <<Num(2), NaN>>)

Scalar(v) == [kind |-> "scalar", v |-> v]

\* The ndarray and sequence inputs of the constructor.
ArrayInputs ==
  {FloatRows, IntRows, MatrixRows, FortranRows, ScalarRows,
   [kind |-> "seq", items |-> <<>>],
   [kind |-> "seq", items |-> <<Scalar(Num(2)), Scalar(NaN)>>]}

\* Its other inputs: rows of different shapes, a row view, a bare scalar,
\* a TensorArray, and a value of no accepted type.
OtherInputs ==
  {[kind |-> "seq",
    items |-> <<[kind |-> "array", a |-> Array("int", <<2>>, <<Num(2), Num(4)>>)],
                [kind |-> "array", a |-> Array("int", <<1>>, <<Num(2)>>)]>>],
   [kind |-> "element",
    tensor |-> [kind |-> "array", a |-> Array("float", <<2>>, <<Num(2), NaN>>)]],
   Scalar(NaN),
   [kind |-> "column"],
   [kind |-> "other"]}

Slice(start, stop, step) ==
  [kind |-> "slice", start |-> start, stop |-> stop, step |-> step,
   stopNone |-> FALSE]

\* The keys of column t that are not integers: the slices [0:2] and [::2],
\* a list of positions, and boolean masks of the right and of a wrong length.
ArrayKeys(t) ==
  {Slice(0, 2, 1),
   [kind |-> "slice", start |-> 0, stop |-> 0, step |-> 2, stopNone |-> TRUE],
   [kind |-> "list", idx |-> <<2, 0>>],
   [kind |-> "mask", mask |-> [k \in 1..t.shape[1] |-> k % 2 = 1]],
   [kind |-> "mask", mask |-> [k \in 1..(t.shape[1] + 1) |-> TRUE]]}

\* Those, and row 1 as a Python int and as a numpy integer.
Keys(t) ==
  ArrayKeys(t) \cup {[kind |-> "int", i |-> 1], [kind |-> "npint", i |-> 1]}

TupleKey == [kind |-> "tuple", idx |-> <<0, 1>>]

\* The keys assigned at: an integer, a slice, a list, a mask, and a tuple.
SetKeys(t) ==
  {[kind |-> "int", i |-> 1],
   Slice(0, 2, 1),
   [kind |-> "list", idx |-> <<2, 0>>],
   [kind |-> "mask", mask |-> [k \in 1..t.shape[1] |-> k % 2 = 1]],
   TupleKey}

TakeArgs ==
  {[indices |-> <<2, 0>>, allow_fill |-> FALSE, fill_value |-> None],
   [indices |-> <<0, -1>>, allow_fill |-> FALSE, fill_value |-> None],
   [indices |-> <<2, -1, 0>>, allow_fill |-> TRUE, fill_value |-> Num(0)],
   [indices |-> <<0, -1>>, allow_fill |-> TRUE, fill_value |-> None],
   [indices |-> <<0, -2>>, allow_fill |-> TRUE, fill_value |-> None]}

\* The values assigned: None, an empty list, and row 0 of the column
\* itself as a TensorElement.
Values(h, t) ==
  {[kind |-> "none"], [kind |-> "seq", items |-> <<>>]}
  \cup (IF InRange(t, 0)
        THEN {[kind |-> "element", tensor |-> IndexInt(h, t, 0)]} ELSE {})

TensorTypeArgs ==
  {[dtype |-> "TensorType", copy |-> TRUE], [dtype |-> "TensorType", copy |-> FALSE]}

OtherTypeArgs == {[dtype |-> "float", copy |-> FALSE], [dtype |-> "str", copy |-> TRUE]}

Ops == {"add", "rsub", "lt", "divmod"}

\* A divisor the model's floordiv and mod are defined for.
Positive(a) == \A k \in 1..Len(a.data) : a.data[k] = NaN \/ (IsNum(a.data[k]) /\ a.data[k][1] > 0)

Numeric(h, t) ==
  /\ h[t.buf].dtype # "bool"
  /\ Unspecified \notin {h[t.buf].data[k] : k \in 1..Len(h[t.buf].data)}

----------------------------------------------------------------------------
(* The state machine *)

\* The columns a call can be made on, while the run has calls left.
Cols == IF nops < MaxOps THEN 1..Len(cols) ELSE {}

Init ==
  /\ heap = <<>>
  /\ cols = <<>>
  /\ prov = <<>>
  /\ res = [op |-> "init", col |-> 0, args |-> <<>>, err |-> "none",
            kind |-> "none", out |-> <<>>]
  /\ nops = 0

\* One call: r is what it raised or returned.  A returned column becomes
\* live; anything else is only reported in res.
Call(op, c, args, result) ==
  \E r \in {result} :
    /\ nops' = nops + 1
    /\ heap' = r.h
    /\ IF r.kind = "column"
       THEN /\ cols' = Append(cols, r.out)
            /\ prov' = Append(prov, [op |-> op, src |-> c, args |-> args])
       ELSE UNCHANGED <<cols, prov>>
    /\ res' = [op |-> op, col |-> c, args |-> args, err |-> r.err, kind |-> r.kind,
               out |-> IF r.kind = "column" THEN Len(cols) + 1 ELSE r.out]

ConstructFrom(inputs) ==
  \E values \in (IF nops < MaxOps THEN inputs ELSE {}) :
    \E mc \in (IF values.kind = "strided" /\ ~c_contiguous(values)
               THEN BOOLEAN ELSE {TRUE}) :
      Call("construct", 0, [values |-> values, make_contiguous |-> mc],
           TensorArray(heap, values, mc))

Construct == ConstructFrom(ArrayInputs \cup OtherInputs)

\* TensorArray(c.to_numpy()): a column made from the ndarray of column c.
ConstructFromColumn ==
  \E c \in Cols :
    \E values \in {to_numpy(heap, cols[c]).out} :
      Call("construct", c, [values |-> values, make_contiguous |-> TRUE],
           TensorArray(heap, values, TRUE))

Concat ==
  \E cs \in {<<c>> : c \in Cols} \cup (Cols \X Cols) :
    Call("concat", 0, cs, concat_same_type(heap, [k \in 1..Len(cs) |-> cols[cs[k]]]))

IsNa ==
  \E c \in Cols :
    Call("isna", c, <<>>, Return(heap, "bools", isna(heap, cols[c])))

Copy ==
  \E c \in Cols : Call("copy", c, <<>>, copy(heap, cols[c]))

Take ==
  \E c \in Cols, a \in TakeArgs :
    Call("take", c, a, take(heap, cols[c], a.indices, a.allow_fill, a.fill_value))

AsTypeWith(args) ==
  \E c \in Cols, a \in args :
    Call("astype", c, a, astype(heap, cols[c], a.dtype, a.copy))

AsType == AsTypeWith(TensorTypeArgs \cup OtherTypeArgs)

GetItemAmong(arrays) ==
  \E c \in Cols :
    \E item \in (IF arrays THEN ArrayKeys(cols[c]) ELSE Keys(cols[c])) :
    Call("getitem", c, item, getitem(heap, cols[c], item))

GetItem == GetItemAmong(FALSE)

SetItem ==
  \E c \in Cols : \E key \in SetKeys(cols[c]) :
    \E value \in Values(heap, cols[c]) :
      Call("setitem", c, [key |-> key, value |-> value],
           setitem(heap, cols[c], key, value))

Reduce ==
  \E c \in Cols, name \in {"sum", "mean"} :
    Call("reduce", c, name, reduce(heap, cols[c], name))

\* column op other, for other a scalar or the column itself, and
\* row view op scalar on the column's row 0.
BinOp ==
  \E c \in Cols, op \in Ops :
    \E a \in {[cls |-> "TensorArray", other |-> Scalar(Num(4))],
              [cls |-> "TensorArray", other |-> [kind |-> "view", t |-> cols[c]]],
              [cls |-> "TensorElement", other |-> Scalar(Num(4))]} :
      /\ Numeric(heap, cols[c])
      /\ a.cls = "TensorElement" => Len(cols[c].shape) > 1 /\ InRange(cols[c], 0)
      /\ op = "divmod" /\ a.other.kind = "view" => Positive(Load(heap, cols[c]))
      /\ Call("binop", c, [op |-> op, cls |-> a.cls, other |-> a.other],
              binop(heap, a.cls,
                    IF a.cls = "TensorArray" THEN [kind |-> "view", t |-> cols[c]]
                    ELSE IndexInt(heap, cols[c], 0),
                    op, a.other))

Next ==
  \/ Construct
  \/ ConstructFromColumn
  \/ Concat
  \/ IsNa
  \/ Copy
  \/ Take
  \/ AsType
  \/ GetItem
  \/ SetItem
  \/ Reduce
  \/ BinOp

Spec == Init /\ [][Next]_vars

\* The calls that make and change columns: construction from arrays,
\* sequences and a column's ndarray, indexing by a slice, a list or a mask, take, concat, copy,
\* astype to the tensor type, and indexed assignment.
ArrayConstruct == ConstructFrom(ArrayInputs)

ArrayGetItem == GetItemAmong(TRUE)

TensorAsType == AsTypeWith(TensorTypeArgs)

ColumnNext ==
  \/ ArrayConstruct
  \/ ConstructFromColumn
  \/ Concat
  \/ Copy
  \/ Take
  \/ TensorAsType
  \/ ArrayGetItem
  \/ SetItem

ColumnSpec == Init /\ [][ColumnNext]_vars

----------------------------------------------------------------------------
(* What the claims speak of *)

\* The content of live column c: its dtype, shape and elements in order.
Tensor(c) == Load(heap, cols[c])

len(c) == cols[c].shape[1]

RowShape(c) == Tail(cols[c].shape)

\* Row i (from 0) of column c, its elements in order.
RowOf(c, i) == Row(Tensor(c), i + 1)

AllNaN(row) == \A j \in 1..Len(row) : row[j] = NaN

\* The rows (from 0) of column t that a valid key of an assignment targets.
TargetRows(t, key) ==
  CASE key.kind = "int" -> {key.i}
    [] key.kind = "slice" ->
         {i \in 0..(t.shape[1] - 1) :
            /\ i >= key.start
            /\ key.stopNone \/ i < key.stop
            /\ (i - key.start) % key.step = 0}
    [] key.kind = "list" -> {key.idx[k] : k \in 1..Len(key.idx)}
    [] OTHER -> {k - 1 : k \in {m \in 1..Len(key.mask) : key.mask[m]}}

ValidKey(t, key) ==
  /\ key.kind \in {"int", "slice", "list", "mask"}
  /\ key.kind = "mask" => Len(key.mask) = t.shape[1]
  /\ \A i \in TargetRows(t, key) : 0 <= i /\ i < t.shape[1]

Absent(value) ==
  value.kind = "none" \/ (value.kind = "seq" /\ value.items = <<>>)

\* Column c holds the ndarray of the column it was made from, or a view of
\* it: c was constructed from that ndarray, sliced from the column with a
\* C-contiguous result, or converted by astype(copy=False), the ndarray
\* being C-contiguous.
HandsOverBuffer(c) ==
  \/ /\ prov[c].op = "getitem"
     /\ prov[c].args.kind = "slice"
     /\ c_contiguous(SliceView(cols[prov[c].src],
                               SliceIndices(prov[c].args, len(prov[c].src))))
  \/ /\ prov[c].op = "astype"
     /\ ~prov[c].args.copy
     /\ c_contiguous(cols[prov[c].src])
  \/ /\ prov[c].op = "construct"
     /\ prov[c].args.values.kind = "view"
     /\ c_contiguous(cols[prov[c].src])

\* The column at the root of column c's chain of such calls.

RECURSIVE Root(_)
Root(c) == IF HandsOverBuffer(c) THEN Root(prov[c].src) ELSE c

Assigned(c) == res'.op = "setitem" /\ res'.col = c

Unchanged(c) == Load(heap', cols'[c]) = Load(heap, cols[c])

----------------------------------------------------------------------------
(* C1 *)

\* C1, as claimed: an indexed assignment on one column never changes the
\* content of any other live column.
C1_NoColumnSharesABuffer ==
  [][\A i, j \in 1..Len(cols) : (i # j /\ Assigned(i)) => Unchanged(j)]_vars

\* C1, amended: an indexed assignment on one column changes no other live
\* column, except those tied to it by construction from a column's
\* ndarray, by slices with a C-contiguous result and by astype(copy=False),
\* which share its buffer.
C1_OnlySlicesAndAstypeShare ==
  [][\A i, j \in 1..Len(cols) :
       (Assigned(i) /\ Root(i) # Root(j)) => Unchanged(j)]_vars

\* An assignment went through on a column that has a column made from it
\* by a list, a mask, take, copy or astype(copy=True), or was so made.
C1_Witness ==
  /\ res.op = "setitem"
  /\ res.err = "none"
  /\ len(res.col) > 0
  /\ \E j \in 1..Len(cols) :
       /\ Root(j) # Root(res.col)
       /\ \/ prov[j].src = res.col /\ prov[j].op \in {"getitem", "take", "copy", "astype"}
          \/ prov[res.col].src = j /\ prov[res.col].op \in {"getitem", "take", "copy", "astype"}
       /\ Tensor(j).data # Tensor(res.col).data

----------------------------------------------------------------------------
(* C2 *)

\* C2: copy() returns a column of the same length, row shape and content,
\* and an indexed assignment to either of the two leaves the other as it was.
C2_CopyEqualAndSeparate ==
  [][/\ (res'.op = "copy" /\ res'.err = "none") =>
          /\ res'.kind = "column"
          /\ cols'[res'.out].shape = cols[res'.col].shape
          /\ Load(heap', cols'[res'.out]).data = Tensor(res'.col).data
     /\ \A k \in 1..Len(cols) :
          prov[k].op = "copy" =>
            /\ Assigned(k) => Unchanged(prov[k].src)
            /\ Assigned(prov[k].src) => Unchanged(k)]_vars

\* An assignment to a copy went through and the copy now differs from its
\* source.
C2_Witness ==
  /\ res.op = "setitem"
  /\ res.err = "none"
  /\ prov[res.col].op = "copy"
  /\ Tensor(res.col).data # Tensor(prov[res.col].src).data

----------------------------------------------------------------------------
(* C6 *)

\* What isna reports for row i of column c: true, as one entry per row.
IsnaTrueAt(c, i) ==
  /\ isna(heap, cols[c]).shape = <<len(c)>>
  /\ isna(heap, cols[c]).data[i + 1] = True

\* C6, as claimed: on any column, assigning None or an empty sequence at a
\* valid key never raises and leaves every targeted row all NaN, with isna
\* true there.
C6_AbsentValueMarksMissing ==
  (/\ res.op = "setitem"
   /\ Absent(res.args.value)
   /\ ValidKey(cols[res.col], res.args.key)) =>
     /\ res.err = "none"
     /\ \A i \in TargetRows(cols[res.col], res.args.key) :
          AllNaN(RowOf(res.col, i)) /\ IsnaTrueAt(res.col, i)

\* C6, amended: on a floating-point column, assigning None or an empty
\* sequence at a valid key never raises and leaves every element of every
\* targeted row NaN; isna is then true at each targeted row when the rows
\* have one axis.
C6_AbsentValueMarksMissingFloat ==
  (/\ res.op = "setitem"
   /\ Absent(res.args.value)
   /\ ValidKey(cols[res.col], res.args.key)
   /\ Tensor(res.col).dtype = "float") =>
     /\ res.err = "none"
     /\ \A i \in TargetRows(cols[res.col], res.args.key) :
          /\ AllNaN(RowOf(res.col, i))
          /\ Len(RowShape(res.col)) = 1 => IsnaTrueAt(res.col, i)

\* None was assigned at a mask, and an empty list at a slice, of a float
\* column with rows to target.
C6_Witness ==
  /\ res.op = "setitem"
  /\ Absent(res.args.value)
  /\ ValidKey(cols[res.col], res.args.key)
  /\ Tensor(res.col).dtype = "float"
  /\ Len(RowShape(res.col)) = 1
  /\ Cardinality(TargetRows(cols[res.col], res.args.key)) = 2

----------------------------------------------------------------------------
(* C3 *)

\* The row that take leaves in a fill slot: fill_value, NaN when none is
\* given, over the row shape.
FillRow(c, fill_value) ==
  [j \in 1..RowSize(cols[c].shape) |->
     IF fill_value = None THEN NaN ELSE fill_value]

\* C3: take returns len(indices) rows of the source's row shape: without
\* allow_fill and with every index in [0, n), row i is source row
\* indices[i]; with allow_fill, row i is the fill row where indices[i] < 0
\* and source row indices[i] where 0 <= indices[i] < n.
C3_TakeGathersAndFills ==
  res.op = "take" =>
    LET c == res.col
        idx == res.args.indices
        inRange == \A k \in 1..Len(idx) : 0 <= idx[k] /\ idx[k] < len(c)
        below == \A k \in 1..Len(idx) : idx[k] < len(c)
    IN  ((~res.args.allow_fill /\ inRange) \/ (res.args.allow_fill /\ below)) =>
          /\ res.err = "none"
          /\ res.kind = "column"
          /\ len(res.out) = Len(idx)
          /\ RowShape(res.out) = RowShape(c)
          /\ \A k \in 1..Len(idx) :
               RowOf(res.out, k - 1) =
                 IF idx[k] < 0 THEN FillRow(c, res.args.fill_value)
                 ELSE RowOf(c, idx[k])

----------------------------------------------------------------------------
(* C4 *)

\* C4: isna returns exactly one boolean per row, true if and only if every
\* element of the row is NaN.
C4_IsnaOnePerRow ==
  res.op = "isna" =>
    /\ res.out.shape = <<len(res.col)>>
    /\ \A i \in 0..(len(res.col) - 1) :
         (res.out.data[i + 1] = True) <=> AllNaN(RowOf(res.col, i))

----------------------------------------------------------------------------
(* C5 *)

RECURSIVE SumOf(_)
SumOf(vs) == IF vs = <<>> THEN Num(0) ELSE add(Head(vs), SumOf(Tail(vs)))

\* C5: the reduction sum returns a column of one row, the elementwise sum
\* of the source's rows, of the source's row shape; any other reduction
\* raises NotImplementedError; the source is unchanged either way.
C5_SumIsOneRow ==
  [][res'.op = "reduce" =>
       /\ Unchanged(res'.col)
       /\ IF res'.args = "sum"
          THEN /\ res'.err = "none"
               /\ res'.kind = "column"
               /\ cols'[res'.out].shape = <<1>> \o RowShape(res'.col)
               /\ Load(heap', cols'[res'.out]).data =
                    [j \in 1..RowSize(cols[res'.col].shape) |->
                       SumOf([i \in 1..len(res'.col) |-> RowOf(res'.col, i - 1)[j]])]
          ELSE res'.err = "NotImplementedError"]_vars

----------------------------------------------------------------------------
(* C7 *)

\* C7: column[i], for an integer i in [0, n) given as a Python int or as a
\* numpy integer, is a row view of row i with the row shape, never a column.
C7_IntegerKeyGivesRowView ==
  (/\ res.op = "getitem"
   /\ res.args.kind \in {"int", "npint"}
   /\ 0 <= res.args.i /\ res.args.i < len(res.col)) =>
     /\ res.err = "none"
     /\ res.kind = "element"
     /\ asarray(heap, res.out).shape = RowShape(res.col)
     /\ asarray(heap, res.out).data = RowOf(res.col, res.args.i)

----------------------------------------------------------------------------
(* C8 *)

\* C8: a synthesized operator returns a value of self's class: a column for
\* a column, with self's number of rows and row shape when other is a
\* scalar or a column of self's shape, and a row view holding one tensor
\* for a row view.
C8_BinopKeepsClassAndShape ==
  res.op = "binop" =>
    /\ res.err = "none"
    /\ IF res.args.cls = "TensorArray"
       THEN /\ res.kind = "column"
            /\ cols[res.out].shape = cols[res.col].shape
       ELSE /\ res.kind = "element"
            /\ res.out.kind \in {"array", "npscalar", "view"}
            /\ asarray(heap, res.out).shape = RowShape(res.col)

----------------------------------------------------------------------------
(* C9 *)

\* A column made from an empty sequence: it has no row to give a shape.
FromEmptySequence(c) ==
  /\ prov[c].op = "construct"
  /\ prov[c].args.values.kind = "seq"
  /\ prov[c].args.values.items = <<>>

SameRowShape(cs) ==
  \A j, k \in 1..Len(cs) :
    \/ FromEmptySequence(cs[j])
    \/ FromEmptySequence(cs[k])
    \/ RowShape(cs[j]) = RowShape(cs[k])

\* C9: concatenating columns of the same row shape, zero-length columns
\* included however they were made, returns their rows in order; with
\* differing row shapes it raises.
C9_ConcatKeepsRows ==
  res.op = "concat" =>
    LET cs == res.args
        rows == ConcatAll([k \in 1..Len(cs) |->
                  [i \in 1..len(cs[k]) |-> RowOf(cs[k], i - 1)]])
    IN  IF SameRowShape(cs)
        THEN /\ res.err = "none"
             /\ res.kind = "column"
             /\ len(res.out) = Len(rows)
             /\ \A i \in 1..Len(rows) : RowOf(res.out, i - 1) = rows[i]
        ELSE res.err # "none"

----------------------------------------------------------------------------
(* C10 *)

\* C10: an assignment at a key that is no integer, slice or array (a
\* tuple) raises NotImplementedError, whatever the value, and writes
\* nothing.
C10_UnsupportedKeyRejected ==
  [][(res'.op = "setitem" /\ res'.args.key.kind = "tuple") =>
       /\ res'.err = "NotImplementedError"
       /\ Unchanged(res'.col)]_vars

====
